---------------------------- MODULE Spec2Model ----------------------------
(***************************************************************************)
(* Convex hull relaxation of a disjunctive model                           *)
(* (pyomo/gdp/plugins/chull.py, ConvexHull_Transformation).                *)
(*                                                                         *)
(* The state is the host model (active flags, indicator variables, the    *)
(* _gdp_transformation_info dictionaries) together with everything the    *)
(* transformation generates (transformation blocks, relaxation blocks,    *)
(* xor and disaggregation constraints) and the position of the running    *)
(* call of _apply_to.                                                      *)
(***************************************************************************)
EXTENDS Integers, Sequences, FiniteSets, TLC

\* ------------------------------------------------------------------------
\* Bounds of the exploration
\* ------------------------------------------------------------------------
\* number of calls of _apply_to on the same instance
MaxRuns == 2
\* number of special features the instance may combine (a deactivated or
\* already relaxed disjunct, an unbounded variable, a nonlinear constraint,
\* an active nested block, ...), see Features
MaxFeatures == 2

\* ------------------------------------------------------------------------
\* Program constants
\* ------------------------------------------------------------------------
NL_Mode_LeeGrossmann == 1
NL_Mode_GrossmannLee == 2
NL_Mode_FurmanSawayaGrossmann == 3
\* a value of nl_mode that names no formulation
BadMode == NL_Mode_FurmanSawayaGrossmann + 1
ModeInputs == {NL_Mode_LeeGrossmann, NL_Mode_GrossmannLee,
               NL_Mode_FurmanSawayaGrossmann, BadMode}

\* ------------------------------------------------------------------------
\* The instance the transformation is applied to.
\*
\*   m                       the model (a Block)
\*     x, w, f               Vars; f is fixed
\*     B                     a Block, empty unless S is declared on it
\*     d[1..3]               an indexed Disjunct
\*        d1: c1(x), p, b    b is a Block holding cb(w); p is a Param or an
\*                           Objective
\*        d2: c2(f, w)
\*        d3: c3(w)
\*     s                     a scalar Disjunct
\*        k[1]               an indexed Disjunct, k[1] holds ck(x)
\*        K[1]               an indexed Disjunction, K[1] = k[1]
\*        cs(x)
\*     J[1..2]               an indexed Disjunction, J[1] = d1 v d2, J[2] = d3
\*     S                     a scalar Disjunction over s (declared on m, or
\*                           on B with the feature S.onB)
\*
\* Constraints are scalar: _transformDisjunctionData reads cons.body of the
\* component, which an indexed Constraint does not have.
\* ------------------------------------------------------------------------
Vars == {"x", "w", "f"}
IndicatorVars == {"d1.indicator_var", "d2.indicator_var", "d3.indicator_var",
                  "s.indicator_var", "k1.indicator_var"}
Constraints == {"c1", "c2", "c3", "cb", "cs", "ck"}
DisjunctDatas == {"d1", "d2", "d3", "s", "k1"}
DisjunctionDatas == {"J1", "J2", "S", "K1"}
\* components (containers); a scalar component is its own only member
DisjunctComps == {"d", "s", "k"}
DisjunctionComps == {"J", "S", "K"}
Blocks == {"m", "b", "B"}
Others == {"p"}

Entities == Vars \cup IndicatorVars \cup Constraints \cup DisjunctDatas
            \cup DisjunctionDatas \cup DisjunctComps \cup DisjunctionComps
            \cup Blocks \cup Others

\* entities that carry an active flag the transformation reads or writes
Activatable == Constraints \cup DisjunctDatas \cup DisjunctionDatas
               \cup DisjunctComps \cup DisjunctionComps \cup Blocks \cup Others

\* obj.is_indexed()
is_indexed(c) == c \in {"d", "J", "k", "K"}

\* sorted(iterkeys(obj)) and obj[i]: the members of a component, by index
Members(c) ==
    CASE c = "d" -> <<"d1", "d2", "d3">>
      [] c = "J" -> <<"J1", "J2">>
      [] c = "k" -> <<"k1">>
      [] c = "K" -> <<"K1">>
      [] OTHER   -> <<c>>

Range(q) == {q[i] : i \in 1..Len(q)}

\* obj.parent_component()
parent_component(e) ==
    CASE e \in {"d1", "d2", "d3"} -> "d"
      [] e \in {"J1", "J2"}       -> "J"
      [] e = "k1"                 -> "k"
      [] e = "K1"                 -> "K"
      [] OTHER                    -> e

\* obj.index(): None (0 here) for a scalar component
index(e) ==
    CASE e \in {"d1", "J1", "k1", "K1"} -> 1
      [] e \in {"d2", "J2"} -> 2
      [] e = "d3"           -> 3
      [] OTHER              -> 0

\* obj.disjuncts, in the order they were given
disjuncts(dj) ==
    CASE dj = "J1" -> <<"d1", "d2">>
      [] dj = "J2" -> <<"d3">>
      [] dj = "S"  -> <<"s">>
      [] dj = "K1" -> <<"k1">>

indicator_var(dd) ==
    CASE dd = "d1" -> "d1.indicator_var"
      [] dd = "d2" -> "d2.indicator_var"
      [] dd = "d3" -> "d3.indicator_var"
      [] dd = "s"  -> "s.indicator_var"
      [] dd = "k1" -> "k1.indicator_var"

\* block.component_map(): every component declared on a block, in
\* declaration order (a Disjunct declares its indicator_var first)
component_map(F, blk) ==
    CASE blk = "m"  -> IF "S.onB" \in F
                       THEN <<"x", "w", "f", "B", "d", "s", "J">>
                       ELSE <<"x", "w", "f", "B", "d", "s", "J", "S">>
      [] blk = "B"  -> IF "S.onB" \in F THEN <<"S">> ELSE <<>>
      [] blk = "d1" -> <<"d1.indicator_var", "c1", "p", "b">>
      [] blk = "d2" -> <<"d2.indicator_var", "c2">>
      [] blk = "d3" -> <<"d3.indicator_var", "c3">>
      [] blk = "s"  -> <<"s.indicator_var", "k", "K", "cs">>
      [] blk = "k1" -> <<"k1.indicator_var", "ck">>
      [] blk = "b"  -> <<"cb">>
      [] OTHER      -> <<>>

\* the variables a constraint body mentions, in the order identify_variables
\* yields them
bodyVars(c) ==
    CASE c = "c1" -> <<"x">>
      [] c = "c2" -> <<"f", "w">>
      [] c = "c3" -> <<"w">>
      [] c = "cb" -> <<"w">>
      [] c = "cs" -> <<"x">>
      [] c = "ck" -> <<"x">>

\* var.fixed
is_fixed(v) == v = "f"

\* c.lower is not None, c.upper is not None
has_lower(c) == c \in {"c1", "c2", "cs"}
has_upper(c) == c \in {"c1", "c3", "cb", "ck"}

\* ------------------------------------------------------------------------
\* What the caller may have done to the instance before the first run
\* ------------------------------------------------------------------------
Features == {"d1.deactivated", "d1.bigm", "d2.deactivated", "d2.badattr",
             "k1.deactivated", "K1.deactivated", "p.Objective",
             "p.inactiveObjective", "b.active", "c1.nonlinear",
             "x.unbounded", "w.unbounded", "S.or", "m.badattr", "S.onB"}

Exclusive == {{"d1.deactivated", "d1.bigm"}, {"d2.deactivated", "d2.badattr"},
              {"p.Objective", "p.inactiveObjective"}}

Instances == {F \in SUBSET Features :
                 /\ Cardinality(F) <= MaxFeatures
                 /\ \A X \in Exclusive : ~(X \subseteq F)}

\* the lists of targets a run may be given (None, here <<"m">>, transforms
\* the whole instance)
TargetLists == {<<"m">>, <<"J">>, <<"J1">>, <<"S">>, <<"K", "S">>, <<"s">>,
                <<"d">>, <<"x">>}

\* a _gdp_transformation_info dictionary of a disjunct.  has: the disjunct
\* carries the attribute; isDict: it is a dict; chull: the relaxation block
\* <<transformation block, position>> or NoBlock
NoBlock == <<0, 0>>
EmptyInfo == [has |-> FALSE, isDict |-> TRUE, relaxed |-> FALSE,
              bigm |-> FALSE, chull |-> NoBlock, disaggregatedVars |-> {},
              bigmConstraints |-> {}, relaxedConstraints |-> {}]

NoError == [kind |-> "none", at |-> "none", disjunct |-> "none"]

VARIABLES
    feat,       \* the features of the instance (never changes)
    active,     \* the active flag of every component and component data
    fixed,      \* disjunct -> its indicator_var is fixed (to 0)
    info,       \* disjunct -> its _gdp_transformation_info
    orConstraintMap,             \* disjunction -> its xor constraint
    disaggregationConstraintMap, \* disjunction -> its sum constraint
    transBlocks, \* the transformation blocks, one record per run
    mode,       \* self._mode
    targets,    \* the targets the running call has not handled yet
    work,       \* the disjunctions _transformBlockData has not yielded yet
    frame,      \* the running call of _transformDisjunction(Data)
    phase,      \* "idle", "targets", "done", "aborted"
    err,        \* the exception that ended the run
    runs,       \* number of calls of _apply_to so far
    walked,     \* what _transform_block_components did, in the running
                \* call of _apply_to, with each component it came to
    varSets,    \* disjunction data -> the varSet last collected for it
    completed,  \* disjunction datas whose transformation returned
    first,      \* the first run, if it completed: targets, artifact counts
    given       \* the targets the running call was given

vars == <<feat, active, fixed, info, orConstraintMap,
          disaggregationConstraintMap, transBlocks, mode, targets, work,
          frame, phase, err, runs, walked, varSets, completed, first,
          given>>

\* obj.type()
type(F, obj) ==
    CASE obj \in Vars \cup IndicatorVars -> "Var"
      [] obj \in Constraints             -> "Constraint"
      [] obj \in DisjunctComps \cup DisjunctDatas       -> "Disjunct"
      [] obj \in DisjunctionComps \cup DisjunctionDatas -> "Disjunction"
      [] obj \in Blocks                  -> "Block"
      [] obj = "p" -> IF F \cap {"p.Objective", "p.inactiveObjective"} = {}
                      THEN "Param" ELSE "Objective"

\* var.lb is None or var.ub is None
unbounded(F, v) == \/ v = "x" /\ "x.unbounded" \in F
                   \/ v = "w" /\ "w.unbounded" \in F

\* c.body.polynomial_degree() not in (0,1)
nonlinear(F, c) == c = "c1" /\ "c1.nonlinear" \in F

\* obj.xor
xor(F, dj) == ~(dj = "S" /\ "S.or" \in F)

InitActive(F) ==
    [e \in Activatable |->
        CASE e = "d1" -> F \cap {"d1.deactivated", "d1.bigm"} = {}
          [] e \in {"c1", "cb"} -> "d1.bigm" \notin F
          [] e = "d2" -> "d2.deactivated" \notin F
          [] e = "k1" -> "k1.deactivated" \notin F
          [] e = "K1" -> "K1.deactivated" \notin F
          [] e = "p"  -> "p.inactiveObjective" \notin F
          [] e = "b"  -> "b.active" \in F
          [] OTHER    -> TRUE]

\* whether the indicator_var of a disjunct is fixed before the first run:
\* d[1] and d[2] were deactivated with deactivate(), which fixes it; the
\* indicator_var of a deactivated k[1] is free (unfixed again by the user)
InitFixed(F) ==
    [dd \in DisjunctDatas |->
        \/ dd = "d1" /\ "d1.deactivated" \in F
        \/ dd = "d2" /\ "d2.deactivated" \in F]

InitInfo(F) ==
    [dd \in DisjunctDatas |->
        CASE dd = "d1" /\ "d1.bigm" \in F ->
                 [EmptyInfo EXCEPT !.has = TRUE, !.relaxed = TRUE, !.bigm = TRUE]
          [] dd = "d2" /\ "d2.badattr" \in F ->
                 [EmptyInfo EXCEPT !.has = TRUE, !.isDict = FALSE]
          [] OTHER -> EmptyInfo]

\* a generated Constraint component: made, once it has been added to the
\* parent block; data, its entries [index, expr, writes], writes counting
\* how often add() has stored something at that index
NoConstraint == [made |-> FALSE, data |-> {}]

NoFrame == [component |-> "none", keys |-> <<>>, whole |-> FALSE]

Init ==
    /\ feat \in Instances
    /\ active = InitActive(feat)
    /\ fixed = InitFixed(feat)
    /\ info = InitInfo(feat)
    /\ orConstraintMap = [c \in DisjunctionComps |-> NoConstraint]
    /\ disaggregationConstraintMap = [c \in DisjunctionComps |-> NoConstraint]
    /\ transBlocks = <<>>
    /\ mode = NL_Mode_FurmanSawayaGrossmann
    /\ targets = <<>>
    /\ work = <<>>
    /\ frame = NoFrame
    /\ phase = "idle"
    /\ err = NoError
    /\ runs = 0
    /\ walked = {}
    /\ varSets = [dj \in DisjunctionDatas |-> <<>>]
    /\ completed = {}
    /\ first = [targets |-> <<>>, counts |-> <<>>]
    /\ given = <<>>

\* ------------------------------------------------------------------------
\* The transformation.  Every method is an operator from the state it finds
\* (a record s of the variables it may touch) to the state it leaves; an
\* exception is recorded in s.err and ends every loop it passes through.
\* ------------------------------------------------------------------------
Raise(s, kind, at, disjunct) ==
    [s EXCEPT !.err = [kind |-> kind, at |-> at, disjunct |-> disjunct]]

ok(s) == s.err.kind = "none"

\* the transformation block of the running call
transBlock(s) == Len(s.transBlocks)

\* the relaxation block rb = <<t, i>>
relaxationBlockOf(s, rb) == s.transBlocks[rb[1]].relaxedDisjuncts[rb[2]]

SetRelaxationBlock(s, rb, blk) ==
    [s EXCEPT !.transBlocks[rb[1]].relaxedDisjuncts[rb[2]] = blk]

\* obj.active: "Normal components cannot be deactivated", only the
\* ActiveComponents carry a flag
IsActive(s, F, obj) ==
    IF obj \in Activatable /\ type(F, obj) # "Param" THEN s.active[obj] ELSE TRUE

\* c.deactivate() of a constraint (data)
DeactivateConstraint(s, c) == [s EXCEPT !.active[c] = FALSE]

\* _DisjunctData.deactivate(): deactivates the block and fixes its
\* indicator_var to 0
DeactivateDisjunct(s, dd) ==
    [s EXCEPT !.active[dd] = FALSE, !.fixed[dd] = TRUE]

\* ActiveComponent.deactivate(obj): the flag of the component alone
DeactivateComponentOnly(s, c) == [s EXCEPT !.active[c] = FALSE]

\* obj.deactivate() of a (possibly indexed) component: the component and,
\* through deactivate() of each, every one of its members
DeactivateComponent(s, c) ==
    [s EXCEPT
        !.active = [e \in Activatable |->
                       IF e = c \/ e \in Range(Members(c))
                       THEN FALSE ELSE s.active[e]],
        !.fixed = [dd \in DisjunctDatas |->
                       IF dd \in Range(Members(c)) THEN TRUE ELSE s.fixed[dd]]]

\* self.handlers
handlers ==
    [Constraint  |-> "_xform_constraint",
     Var         |-> "False",
     Connector   |-> "False",
     Param       |-> "False",
     Set         |-> "False",
     Suffix      |-> "False",
     Disjunction |-> "_warn_for_active_disjunction",
     Disjunct    |-> "_warn_for_active_disjunct",
     Block       |-> "_transform_block_on_disjunct"]

\* faulty variant of handlers_get: the default of the lookup is False, so a type
\* without entry is passed over
handlers_get_default_False(ty) ==
    IF ty \in DOMAIN handlers THEN handlers[ty] ELSE "False"

\* self.handlers.get(obj.type(), None)
handlers_get(ty) == IF ty \in DOMAIN handlers THEN handlers[ty] ELSE "None"

\* faulty variant of computes_h_0: the body is evaluated at the origin for a
\* nonlinear constraint or in the mode of Furman, Sawaya and Grossmann
computes_h_0_when_NL(NL, md) == NL \/ md = NL_Mode_FurmanSawayaGrossmann

\* the condition under which _xform_constraint evaluates the body at the
\* origin (h_0)
computes_h_0(NL, md) == ~NL \/ md = NL_Mode_FurmanSawayaGrossmann

\* the body of the relaxed constraint: its form, and whether it mentions h_0
relaxed_expr(NL, md) ==
    IF ~NL THEN [form |-> "substituted", h_0 |-> FALSE, raises |-> FALSE]
    ELSE IF md = NL_Mode_LeeGrossmann
         THEN [form |-> "y*h(v/y)", h_0 |-> FALSE, raises |-> FALSE]
    ELSE IF md = NL_Mode_GrossmannLee
         THEN [form |-> "(y+eps)*h(v/(y+eps))", h_0 |-> FALSE, raises |-> FALSE]
    ELSE IF md = NL_Mode_FurmanSawayaGrossmann
         THEN [form |-> "((1-eps)*y+eps)*h(v/((1-eps)*y+eps)) - eps*h_0*(1-y)",
               h_0 |-> TRUE, raises |-> FALSE]
    ELSE [form |-> "none", h_0 |-> FALSE, raises |-> TRUE]

\* the lower and upper constraints added for the sides the original has;
\* each says whether it mentions h_0
relaxed_sides(NL, c) ==
    (IF has_lower(c) THEN {[side |-> "lb", h_0 |-> ~NL]} ELSE {})
    \cup
    (IF has_upper(c) THEN {[side |-> "ub", h_0 |-> ~NL]} ELSE {})

\* _xform_constraint(obj, disjunct, relaxationBlock, infodict, ...) for a
\* scalar constraint obj; s.infodict is the infodict of the caller
xform_constraint(s, F, md, obj, disjunct, rb) ==
    LET blk == relaxationBlockOf(s, rb)
        NL == nonlinear(F, obj)
        e == relaxed_expr(NL, md)
        sides == relaxed_sides(NL, obj)
        newConstraint(dat) ==
            [src |-> obj, y |-> indicator_var(disjunct), NL |-> NL,
             mode |-> md, h_0 |-> computes_h_0(NL, md), expr |-> e.form,
             data |-> dat]
        \* newConstraint is added and recorded before its entries are built
        s1(dat) == [SetRelaxationBlock(s, rb,
                        [blk EXCEPT !.srcConstraints = @ \cup {newConstraint(dat)}])
                    EXCEPT !.infodict.relaxedConstraints = @ \cup {obj}]
    IN  IF ~s.active[obj] THEN s1({})
        ELSE IF e.raises
             THEN Raise(DeactivateConstraint(s1({}), obj),
                        "UnknownFormulationMode", obj, disjunct)
        ELSE IF (e.h_0 \/ \E sd \in sides : sd.h_0) /\ ~computes_h_0(NL, md)
             THEN Raise(DeactivateConstraint(s1({}), obj),
                        "UnboundLocalError", obj, disjunct)
        ELSE DeactivateConstraint(s1(sides), obj)

\* obj.activate() of a component: the component and every member
ActivateComponent(s, c) ==
    [s EXCEPT
        !.active = [e \in Activatable |->
                       IF e = c \/ e \in Range(Members(c))
                       THEN TRUE ELSE s.active[e]]]

\* faulty variant of warn_for_active: a component without active member is
\* activated instead of deactivated
warn_for_active_activates(s, obj, disjunct) ==
    LET live == {i \in 1..Len(Members(obj)) : s.active[Members(obj)[i]]}
        problemdisj == IF is_indexed(obj)
                       THEN Members(obj)[CHOOSE i \in live : \A j \in live : i <= j]
                       ELSE obj
    IN  IF is_indexed(obj) /\ live = {}
        THEN ActivateComponent(s, obj)
        ELSE Raise(s, "OrderingViolation", problemdisj, disjunct)

\* _warn_for_active_disjunction and _warn_for_active_disjunct
warn_for_active(s, obj, disjunct) ==
    LET live == {i \in 1..Len(Members(obj)) : s.active[Members(obj)[i]]}
        problemdisj == IF is_indexed(obj)
                       THEN Members(obj)[CHOOSE i \in live : \A j \in live : i <= j]
                       ELSE obj
    IN  IF is_indexed(obj) /\ live = {}
        THEN DeactivateComponent(s, obj)
        ELSE Raise(s, "OrderingViolation", problemdisj, disjunct)

\* _transform_block_on_disjunct: evaluating its arguments reads varSet,
\* a name that is not defined in the method
transform_block_on_disjunct(s, block, disjunct) ==
    Raise(s, "NameError", block, disjunct)

\* what the loop of _transform_block_components does with one component
visit(s, F, md, obj, disjunct, rb) ==
    LET isActive == IsActive(s, F, obj)
        handler == handlers_get(type(F, obj))
        note(how) == [s EXCEPT !.walked = @ \cup
                         {[obj |-> obj, on |-> disjunct, active |-> isActive,
                           lookup |-> isActive, how |-> how]}]
    IN  IF ~isActive THEN note("skipped")
        ELSE IF handler = "None"
             THEN Raise(note("unsupported"), "UnsupportedEntityKind", obj, disjunct)
        ELSE IF handler = "False" THEN note("passed")
        ELSE IF handler = "_xform_constraint"
             THEN xform_constraint(note(handler), F, md, obj, disjunct, rb)
        ELSE IF handler = "_transform_block_on_disjunct"
             THEN transform_block_on_disjunct(note(handler), obj, disjunct)
        ELSE warn_for_active(note(handler), obj, disjunct)

\* _transform_block_components(block, disjunct, relaxedBlock, ...), from the
\* i-th component of block on
RECURSIVE transform_block_components(_, _, _, _, _, _, _)
transform_block_components(s, F, md, block, disjunct, rb, i) ==
    IF ~ok(s) \/ i > Len(component_map(F, block)) THEN s
    ELSE transform_block_components(
             visit(s, F, md, component_map(F, block)[i], disjunct, rb),
             F, md, block, disjunct, rb, i + 1)

\* faulty variant of disaggregate_var: the bounds are checked after the bigm
\* constraint is added
disaggregate_var_checks_last(s, F, obj, rb, var) ==
    LET blk == relaxationBlockOf(s, rb)
        s1 == [SetRelaxationBlock(s, rb,
                   [blk EXCEPT !.srcVars = @ \cup {var},
                               !.boundConstraintToSrcVar = @ \cup {var}])
               EXCEPT !.infodict.disaggregatedVars = @ \cup {var},
                      !.infodict.bigmConstraints = @ \cup {var}]
    IN  IF unbounded(F, var)
        THEN Raise(s1, "UnboundedDisaggregationVariable", var, obj)
        ELSE s1

\* one pass of the loop over varSet in _transform_disjunct: the
\* disaggregated variable, its two ledger entries, the bounds check and the
\* bigm constraint
disaggregate_var(s, F, obj, rb, var) ==
    LET blk == relaxationBlockOf(s, rb)
        s1 == [SetRelaxationBlock(s, rb, [blk EXCEPT !.srcVars = @ \cup {var}])
               EXCEPT !.infodict.disaggregatedVars = @ \cup {var}]
        blk1 == relaxationBlockOf(s1, rb)
        s2 == [SetRelaxationBlock(s1, rb,
                   [blk1 EXCEPT !.boundConstraintToSrcVar = @ \cup {var}])
               EXCEPT !.infodict.bigmConstraints = @ \cup {var}]
    IN  IF unbounded(F, var)
        THEN Raise(s1, "UnboundedDisaggregationVariable", var, obj)
        ELSE s2

RECURSIVE disaggregate(_, _, _, _, _, _)
disaggregate(s, F, obj, rb, varSet, i) ==
    IF ~ok(s) \/ i > Len(varSet) THEN s
    ELSE disaggregate(disaggregate_var(s, F, obj, rb, varSet[i]),
                      F, obj, rb, varSet, i + 1)

NewRelaxationBlock(obj) ==
    [src |-> obj, srcVars |-> {}, boundConstraintToSrcVar |-> {},
     srcConstraints |-> {}]

\* the last statements of _transform_disjunct, reached unless an error
\* was raised before them
finish_disjunct(s, obj) ==
    IF ok(s)
    THEN [DeactivateDisjunct(s, obj) EXCEPT !.infodict.relaxed = TRUE]
    ELSE s

\* infodict is set on the disjunct: it is the dict the disjunct carried
\* (had), or a new one that the last statement sets
set_infodict(s, obj, had) ==
    [s EXCEPT !.info[obj] = IF had \/ ok(s)
                            THEN [s.infodict EXCEPT !.has = TRUE] ELSE @,
              !.infodict = EmptyInfo]

\* faulty variant of _transform_disjunct: a disjunct that any transformation
\* has relaxed is left alone
transform_disjunct_skips_relaxed(s, F, md, obj, varSet) ==
    LET had == s.info[obj].has
        infodict == IF had THEN s.info[obj] ELSE EmptyInfo
        t == transBlock(s)
        rb == <<t, Len(s.transBlocks[t].relaxedDisjuncts) + 1>>
        disjParent == parent_component(obj)
        s1 == [s EXCEPT
                 !.transBlocks[t].relaxedDisjuncts =
                     Append(@, NewRelaxationBlock(obj)),
                 !.transBlocks[t].disjContainers =
                     IF is_indexed(disjParent) THEN @ \cup {disjParent} ELSE @,
                 !.infodict = [infodict EXCEPT !.chull = rb,
                                               !.disaggregatedVars = {},
                                               !.bigmConstraints = {}]]
        s2 == disaggregate(s1, F, obj, rb, varSet, 1)
        s3 == transform_block_components(s2, F, md, obj, obj, rb, 1)
        s4 == finish_disjunct(s3, obj)
    IN  IF had /\ ~s.info[obj].isDict
        THEN Raise(s, "ConflictingMetadataAttribute", obj, obj)
        ELSE IF ~s.active[obj] /\ ~infodict.relaxed
        THEN [s EXCEPT !.fixed[obj] = TRUE]
        ELSE IF infodict.chull # NoBlock \/ infodict.relaxed
        THEN s
        ELSE set_infodict(s4, obj, had)

\* faulty variant of _transform_disjunct: the indicator_var of a disjunct the
\* user deactivated is not fixed
transform_disjunct_leaves_indicator(s, F, md, obj, varSet) ==
    LET had == s.info[obj].has
        infodict == IF had THEN s.info[obj] ELSE EmptyInfo
        t == transBlock(s)
        rb == <<t, Len(s.transBlocks[t].relaxedDisjuncts) + 1>>
        disjParent == parent_component(obj)
        s1 == [s EXCEPT
                 !.transBlocks[t].relaxedDisjuncts =
                     Append(@, NewRelaxationBlock(obj)),
                 !.transBlocks[t].disjContainers =
                     IF is_indexed(disjParent) THEN @ \cup {disjParent} ELSE @,
                 !.infodict = [infodict EXCEPT !.chull = rb,
                                               !.disaggregatedVars = {},
                                               !.bigmConstraints = {}]]
        s2 == disaggregate(s1, F, obj, rb, varSet, 1)
        s3 == transform_block_components(s2, F, md, obj, obj, rb, 1)
        s4 == finish_disjunct(s3, obj)
    IN  IF had /\ ~s.info[obj].isDict
        THEN Raise(s, "ConflictingMetadataAttribute", obj, obj)
        ELSE IF ~s.active[obj] /\ ~infodict.relaxed
        THEN s
        ELSE IF infodict.chull # NoBlock
        THEN s
        ELSE set_infodict(s4, obj, had)

\* _transform_disjunct(obj, transBlock, varSet).  infodict is the dict the
\* disjunct carries, or a new one that is set on the disjunct on return.
transform_disjunct(s, F, md, obj, varSet) ==
    LET had == s.info[obj].has
        infodict == IF had THEN s.info[obj] ELSE EmptyInfo
        t == transBlock(s)
        rb == <<t, Len(s.transBlocks[t].relaxedDisjuncts) + 1>>
        disjParent == parent_component(obj)
        s1 == [s EXCEPT
                 !.transBlocks[t].relaxedDisjuncts =
                     Append(@, NewRelaxationBlock(obj)),
                 !.transBlocks[t].disjContainers =
                     IF is_indexed(disjParent) THEN @ \cup {disjParent} ELSE @,
                 !.infodict = [infodict EXCEPT !.chull = rb,
                                               !.disaggregatedVars = {},
                                               !.bigmConstraints = {}]]
        s2 == disaggregate(s1, F, obj, rb, varSet, 1)
        s3 == transform_block_components(s2, F, md, obj, obj, rb, 1)
        s4 == finish_disjunct(s3, obj)
    IN  IF had /\ ~s.info[obj].isDict
        THEN Raise(s, "ConflictingMetadataAttribute", obj, obj)
        ELSE IF ~s.active[obj] /\ ~infodict.relaxed
        THEN [s EXCEPT !.fixed[obj] = TRUE]
        ELSE IF infodict.chull # NoBlock
        THEN s
        ELSE set_infodict(s4, obj, had)

\* the sequence q without its repeated elements, first occurrences kept
RECURSIVE Unique(_)
Unique(q) ==
    IF q = <<>> THEN <<>>
    ELSE LET r == Unique(SubSeq(q, 1, Len(q) - 1))
         IN  IF q[Len(q)] \in Range(r) THEN r ELSE Append(r, q[Len(q)])

RECURSIVE Flatten(_)
Flatten(qq) == IF qq = <<>> THEN <<>> ELSE Head(qq) \o Flatten(Tail(qq))

\* blk.component_objects(Constraint, active=True,
\*     sort=SortComponents.deterministic, descend_into=Block): nothing for
\* a block that is not active, else the active constraints of the block,
\* then those of the active Blocks on it
RECURSIVE active_constraints(_, _, _)
active_constraints(s, F, blk) ==
    IF ~s.active[blk] THEN <<>>
    ELSE LET comps == component_map(F, blk)
             own == SelectSeq(comps, LAMBDA o : type(F, o) = "Constraint"
                                                /\ s.active[o])
             subs == SelectSeq(comps, LAMBDA o : type(F, o) = "Block"
                                                 /\ s.active[o])
         IN  own \o Flatten([i \in 1..Len(subs) |->
                                active_constraints(s, F, subs[i])])

\* identify_variables(cons.body, include_fixed=False)
identify_variables(c) == SelectSeq(bodyVars(c), LAMBDA v : ~is_fixed(v))

\* the varSet _transformDisjunctionData collects
collect_varSet(s, F, obj) ==
    LET ds == disjuncts(obj)
        cons == Flatten([i \in 1..Len(ds) |-> active_constraints(s, F, ds[i])])
    IN  Unique(Flatten([i \in 1..Len(cons) |-> identify_variables(cons[i])]))

\* cons.body for every active Constraint component of the disjuncts of obj:
\* the Constraint components _getDisjunctionConstraints added to a disjunct
\* for a Disjunction declared on it are indexed and have no body.  The
\* Disjunction whose constraint the loop fails at, or "none".
body_failure(s, F, obj) ==
    LET ds == disjuncts(obj)
        gen(dd) == SelectSeq(component_map(F, dd),
                       LAMBDA o : /\ o \in DisjunctionComps
                                  /\ s.disaggregationConstraintMap[o].made)
        bad == {i \in 1..Len(ds) : s.active[ds[i]] /\ gen(ds[i]) # <<>>}
    IN  IF bad = {} THEN "none"
        ELSE Head(gen(ds[CHOOSE i \in bad : \A j \in bad : i <= j]))

\* faulty variant of or_expr: only the disjuncts that carry a transformation record
\* are summed
or_expr_transformed_only(s, obj) ==
    LET ds == SelectSeq(disjuncts(obj), LAMBDA dd : s.info[dd].has)
    IN  [i \in 1..Len(ds) |-> indicator_var(ds[i])]

\* or_expr once the loop over obj.disjuncts has ended
or_expr(s, obj) ==
    [i \in 1..Len(disjuncts(obj)) |-> indicator_var(disjuncts(obj)[i])]

\* Constraint.add(index, expr)
Writes(cons, idx) ==
    IF \E e \in cons.data : e.index = idx
    THEN (CHOOSE e \in cons.data : e.index = idx).writes ELSE 0

add(cons, idx, expr) ==
    [cons EXCEPT !.data = {e \in @ : e.index # idx}
                          \cup {[index |-> idx, expr |-> expr,
                                 writes |-> Writes(cons, idx) + 1]}]

\* disjunction.parent_block()
parent_block(F, c) ==
    CHOOSE blk \in Blocks \cup DisjunctDatas : c \in Range(component_map(F, blk))

\* _getDisjunctionConstraints(disjunction): the two Constraint components
\* are added to the parent block, which gets a _gdp_transformation_info
\* dict if it has none
getDisjunctionConstraints(s, F, disjunction) ==
    LET parent == parent_block(F, disjunction)
        s1 == [s EXCEPT !.disaggregationConstraintMap[disjunction].made = TRUE,
                        !.orConstraintMap[disjunction].made = TRUE]
    IN  IF "m.badattr" \in F /\ parent = "m"
        THEN Raise(s, "ConflictingMetadataAttribute", "m", "none")
        ELSE IF parent \in DisjunctDatas
        THEN [s1 EXCEPT !.info[parent].has = TRUE]
        ELSE s1

\* the loop over obj.disjuncts that calls _transform_disjunct
RECURSIVE transform_disjuncts(_, _, _, _, _, _)
transform_disjuncts(s, F, md, obj, varSet, i) ==
    IF ~ok(s) \/ i > Len(disjuncts(obj)) THEN s
    ELSE transform_disjuncts(
             transform_disjunct(s, F, md, disjuncts(obj)[i], varSet),
             F, md, obj, varSet, i + 1)

\* consIdx for the i-th variable (counted from 0)
consIdx(obj, idx, i) ==
    IF is_indexed(parent_component(obj)) THEN <<idx, i>> ELSE <<i>>

\* disjunct._gdp_transformation_info['disaggregatedVars'][var] for every
\* disjunct: the disjunct the lookup fails for, if any
lookup_failure(s, obj, var) ==
    LET ds == disjuncts(obj)
        bad == {i \in 1..Len(ds) :
                   \/ ~s.info[ds[i]].has
                   \/ var \notin s.info[ds[i]].disaggregatedVars}
    IN  IF bad = {} THEN "none"
        ELSE ds[CHOOSE i \in bad : \A j \in bad : i <= j]

\* the loop that adds the disaggregation constraints
RECURSIVE disaggregation_constraints(_, _, _, _, _)
disaggregation_constraints(s, obj, idx, varSet, i) ==
    IF ~ok(s) \/ i > Len(varSet) THEN s
    ELSE LET var == varSet[i]
             failing == lookup_failure(s, obj, var)
             pc == parent_component(obj)
         IN  IF failing # "none"
             THEN Raise(s, IF s.info[failing].has THEN "KeyError"
                                                  ELSE "AttributeError",
                        var, failing)
             ELSE disaggregation_constraints(
                      [s EXCEPT !.disaggregationConstraintMap[pc] =
                          add(@, consIdx(obj, idx, i - 1),
                              [var |-> var, sum |-> disjuncts(obj)])],
                      obj, idx, varSet, i + 1)

\* orConstraint.add(index, (or_expr, 1)), reached unless an error was raised
\* before it
add_xor(s, obj, idx) ==
    IF ok(s)
    THEN [s EXCEPT !.orConstraintMap[parent_component(obj)] =
                       add(@, idx, [sum |-> or_expr(s, obj), equals |-> 1])]
    ELSE s

\* _transformDisjunctionData returned: obj is recorded as completed
returned(s, obj) ==
    IF ok(s) THEN [s EXCEPT !.completed = @ \cup {obj}] ELSE s

\* _transformDisjunctionData(obj, transBlock, index)
transformDisjunctionData(s, F, md, obj, idx) ==
    LET pc == parent_component(obj)
        t == transBlock(s)
        s1 == getDisjunctionConstraints(
                  [s EXCEPT !.transBlocks[t].disjContainers = @ \cup {pc}],
                  F, pc)
        varSet == collect_varSet(s1, F, obj)
        noBody == body_failure(s, F, obj)
        s2 == IF ~ok(s1) THEN s1
              ELSE IF noBody # "none"
              THEN Raise(s1, "AttributeError", noBody, parent_block(F, noBody))
              ELSE [s1 EXCEPT !.varSets[obj] = varSet]
        s3 == transform_disjuncts(s2, F, md, obj, varSet, 1)
        s4 == add_xor(s3, obj, idx)
        s5 == disaggregation_constraints(s4, obj, idx, varSet, 1)
    IN  IF ~xor(F, obj)
        THEN Raise(s, "NonExclusiveDisjunctionUnsupported", obj, "none")
        ELSE returned(s5, obj)

\* ------------------------------------------------------------------------
\* Generated artifacts
\* ------------------------------------------------------------------------
RECURSIVE SumSeq(_)
SumSeq(q) == IF q = <<>> THEN 0 ELSE Head(q) + SumSeq(Tail(q))

RECURSIVE SumSet(_, _)
SumSet(S, f) == IF S = {} THEN 0
                ELSE LET x == CHOOSE x \in S : TRUE
                     IN  f[x] + SumSet(S \ {x}, f)

\* every relaxation block of every transformation block
AllRelaxationBlocks(tbs) ==
    Flatten([t \in 1..Len(tbs) |-> tbs[t].relaxedDisjuncts])

\* the number of each kind of generated artifact
ArtifactCounts ==
    LET q == AllRelaxationBlocks(transBlocks)
    IN  [relaxationScopes |-> Len(transBlocks),
         relaxedDisjuncts |-> Len(q),
         disaggregatedVars |->
             SumSeq([i \in 1..Len(q) |-> Cardinality(q[i].srcVars)]),
         boundConstraints |->
             SumSeq([i \in 1..Len(q) |->
                        Cardinality(q[i].boundConstraintToSrcVar)]),
         relaxedConstraints |->
             SumSeq([i \in 1..Len(q) |-> Cardinality(q[i].srcConstraints)]),
         xor |-> SumSet(DisjunctionComps,
                        [c \in DisjunctionComps |->
                            Cardinality(orConstraintMap[c].data)]),
         disaggregation |->
             SumSet(DisjunctionComps,
                    [c \in DisjunctionComps |->
                        Cardinality(disaggregationConstraintMap[c].data)])]

\* ------------------------------------------------------------------------
\* The run: _apply_to and the traversal
\* ------------------------------------------------------------------------
Pack ==
    [active |-> active, fixed |-> fixed, info |-> info,
     orConstraintMap |-> orConstraintMap,
     disaggregationConstraintMap |-> disaggregationConstraintMap,
     transBlocks |-> transBlocks, walked |-> walked, varSets |-> varSets,
     completed |-> completed, err |-> NoError, infodict |-> EmptyInfo]

Unpack(s) ==
    /\ active' = s.active
    /\ fixed' = s.fixed
    /\ info' = s.info
    /\ orConstraintMap' = s.orConstraintMap
    /\ disaggregationConstraintMap' = s.disaggregationConstraintMap
    /\ transBlocks' = s.transBlocks
    /\ walked' = s.walked
    /\ varSets' = s.varSets
    /\ completed' = s.completed
    /\ err' = s.err

NewTransBlock == [relaxedDisjuncts |-> <<>>, disjContainers |-> {}]

\* _apply_to(instance, targets=ts, nl_mode=md) up to the loop over targets
apply_to(ts, md) ==
    /\ phase \in {"idle", "done", "aborted"}
    /\ runs < MaxRuns
    /\ runs' = runs + 1
    /\ mode' = md
    /\ transBlocks' = Append(transBlocks, NewTransBlock)
    /\ targets' = ts
    /\ given' = ts
    /\ work' = <<>>
    /\ frame' = NoFrame
    /\ phase' = "targets"
    /\ err' = NoError
    /\ walked' = {}
    /\ UNCHANGED <<feat, active, fixed, info, orConstraintMap,
                   disaggregationConstraintMap, varSets, completed, first>>

\* the data of the active components of type Block or Disjunct on blk
sub_blocks(s, F, blk) ==
    LET comps == SelectSeq(component_map(F, blk),
                     LAMBDA o : type(F, o) \in {"Block", "Disjunct"}
                                /\ s.active[o])
    IN  SelectSeq(Flatten([i \in 1..Len(comps) |-> Members(comps[i])]),
                  LAMBDA o : s.active[o])

\* the blocks under blk (blk included), children before parents
RECURSIVE postfix_blocks(_, _, _)
postfix_blocks(s, F, blk) ==
    IF ~s.active[blk] THEN <<>>
    ELSE LET subs == sub_blocks(s, F, blk)
         IN  Flatten([i \in 1..Len(subs) |-> postfix_blocks(s, F, subs[i])])
             \o <<blk>>

\* obj.component_objects(Disjunction, sort=SortComponents.deterministic,
\*     descend_into=(Block,Disjunct),
\*     descent_order=TraversalStrategy.PostfixDFS);
\* the active flag of each is read when it is yielded (next_disjunction)
component_objects_Disjunction(s, F, obj) ==
    LET blks == postfix_blocks(s, F, obj)
    IN  Flatten([i \in 1..Len(blks) |->
            SelectSeq(component_map(F, blks[i]),
                      LAMBDA o : type(F, o) = "Disjunction")])

Abort(e) ==
    /\ phase' = "aborted"
    /\ err' = e
    /\ targets' = <<>>
    /\ work' = <<>>
    /\ frame' = NoFrame

\* one pass of the loop over targets, up to the first disjunction
next_target ==
    /\ phase = "targets"
    /\ work = <<>>
    /\ frame = NoFrame
    /\ targets # <<>>
    /\ LET t == Head(targets)
           ty == type(feat, t)
       IN  IF ~IsActive(Pack, feat, t)
           THEN /\ targets' = Tail(targets)
                /\ UNCHANGED <<work, frame, phase, err>>
           ELSE IF ty = "Disjunction"
           THEN /\ targets' = Tail(targets)
                /\ frame' = IF parent_component(t) = t
                            THEN [component |-> t, keys |-> Members(t),
                                  whole |-> TRUE]
                            ELSE [component |-> parent_component(t),
                                  keys |-> <<t>>, whole |-> FALSE]
                /\ UNCHANGED <<work, phase, err>>
           ELSE IF ty \in {"Block", "Disjunct"}
           THEN /\ targets' = Tail(targets)
                /\ work' = Flatten([i \in 1..Len(Members(t)) |->
                               component_objects_Disjunction(
                                   Pack, feat, Members(t)[i])])
                /\ UNCHANGED <<frame, phase, err>>
           ELSE Abort([kind |-> "UnsupportedTargetKind", at |-> t,
                       disjunct |-> "none"])
    /\ UNCHANGED <<feat, active, fixed, info, orConstraintMap,
                   disaggregationConstraintMap, transBlocks, mode, runs,
                   walked, varSets, completed, first, given>>

\* _transformBlockData: the next disjunction of the traversal, and the call
\* of _transformDisjunction if it is active
next_disjunction ==
    /\ phase = "targets"
    /\ frame = NoFrame
    /\ work # <<>>
    /\ work' = Tail(work)
    /\ frame' = IF active[Head(work)]
                THEN [component |-> Head(work), keys |-> Members(Head(work)),
                      whole |-> TRUE]
                ELSE NoFrame
    /\ UNCHANGED <<feat, active, fixed, info, orConstraintMap,
                   disaggregationConstraintMap, transBlocks, mode, targets,
                   phase, err, runs, walked, varSets, completed, first, given>>

\* the state s a call of _transformDisjunctionData leaves: the loop goes on
\* to the next index, or the error ends the run
after_transformDisjunctionData(s) ==
    /\ Unpack(s)
    /\ IF ok(s)
       THEN /\ frame' = IF Len(frame.keys) = 1 /\ ~frame.whole
                        THEN NoFrame
                        ELSE [frame EXCEPT !.keys = Tail(@)]
            /\ UNCHANGED <<targets, work, phase>>
       ELSE /\ phase' = "aborted"
            /\ targets' = <<>>
            /\ work' = <<>>
            /\ frame' = NoFrame

\* one call of _transformDisjunctionData, from _transformDisjunction or for
\* a target that is a single index
transform_disjunction_data ==
    /\ phase = "targets"
    /\ frame.keys # <<>>
    /\ LET obj == Head(frame.keys)
       IN  after_transformDisjunctionData(
               transformDisjunctionData(Pack, feat, mode, obj, index(obj)))
    /\ UNCHANGED <<feat, mode, runs, first, given>>

\* the end of _transformDisjunction: obj.deactivate()
end_disjunction ==
    /\ phase = "targets"
    /\ frame # NoFrame
    /\ frame.keys = <<>>
    /\ Unpack(DeactivateComponent(Pack, frame.component))
    /\ frame' = NoFrame
    /\ UNCHANGED <<feat, mode, targets, work, phase, runs, first, given>>

\* faulty variant of to_deactivate: the members are not looked at
to_deactivate_unchecked(s, obj) == s.active[obj]

\* whether the loop over transBlock.disjContainers deactivates obj
to_deactivate(s, obj) ==
    /\ s.active[obj]
    /\ \A i \in 1..Len(Members(obj)) : ~s.active[Members(obj)[i]]

\* the loop over transBlock.disjContainers
check_containers(s) ==
    LET visited == s.transBlocks[transBlock(s)].disjContainers
    IN  [s EXCEPT !.active =
            [e \in Activatable |->
                IF e \in visited /\ to_deactivate(s, e)
                THEN DeactivateComponentOnly(s, e).active[e]
                ELSE s.active[e]]]

\* the end of _apply_to, once every target is handled
finish ==
    /\ phase = "targets"
    /\ targets = <<>>
    /\ work = <<>>
    /\ frame = NoFrame
    /\ Unpack(check_containers(Pack))
    /\ phase' = "done"
    /\ first' = IF runs = 1
                THEN [targets |-> given, counts |-> ArtifactCounts']
                ELSE first
    /\ UNCHANGED <<feat, mode, targets, work, frame, runs, given>>

Next ==
    \/ \E ts \in TargetLists, md \in ModeInputs : apply_to(ts, md)
    \/ next_target
    \/ next_disjunction
    \/ transform_disjunction_data
    \/ end_disjunction
    \/ finish

Spec == Init /\ [][Next]_vars

\* ------------------------------------------------------------------------
\* Properties
\* ------------------------------------------------------------------------
\* the transformation block of the running (or last) call
CurrentTransBlock == transBlocks[Len(transBlocks)]

\* the relaxation block made last in the running (or last) call
LastRelaxationBlock ==
    CurrentTransBlock.relaxedDisjuncts[Len(CurrentTransBlock.relaxedDisjuncts)]

\* the entries of the xor constraint of disjunction data dj
XorEntries(dj) ==
    {e \in orConstraintMap[parent_component(dj)].data : e.index = index(dj)}

\* the entries of the disaggregation constraint of dj for the i-th variable
\* (counted from 1) of the varSet last collected for dj
SumEntries(dj, i) ==
    {e \in disaggregationConstraintMap[parent_component(dj)].data :
        e.index = consIdx(dj, index(dj), i - 1)}

AllIndicators(dj) ==
    [i \in 1..Len(disjuncts(dj)) |-> indicator_var(disjuncts(dj)[i])]

\* the disjunction a disjunct belongs to
DisjunctionOf(dd) ==
    CHOOSE dj \in DisjunctionDatas : dd \in Range(disjuncts(dj))

\* C1: a second run with the targets of a first, completed run leaves every
\* count of generated artifacts, the relaxation scopes among them, as the
\* first run left it
C1_SecondRunAddsNothing ==
    (/\ phase = "done"
     /\ runs = 2
     /\ first.targets # <<>>
     /\ given = first.targets)
    => ArtifactCounts = first.counts

\* C2: once _transformDisjunctionData has returned for a disjunction, the
\* xor constraint of its component holds, at the index of the disjunction,
\* exactly one entry: the sum of the indicator variables of all its
\* disjuncts, each once, equals 1
C2_Exclusivity ==
    \A dj \in completed :
        /\ orConstraintMap[parent_component(dj)].made
        /\ Cardinality(XorEntries(dj)) = 1
        /\ \A e \in XorEntries(dj) :
               e.expr = [sum |-> AllIndicators(dj), equals |-> 1]

\* a disjunction was transformed one of whose disjuncts the transformer
\* skipped as deactivated by the user
C2_Witness ==
    \E dj \in completed : \E i \in 1..Len(disjuncts(dj)) :
        /\ ~info[disjuncts(dj)[i]].has
        /\ fixed[disjuncts(dj)[i]]
        /\ Len(disjuncts(dj)) > 1

\* C3: for every disjunction processed and every variable of its varSet the
\* run records one disaggregation constraint var = sum of the copies of all
\* the disjuncts; no lookup of a disjunct's copy fails, be the disjunct
\* transformed now, transformed earlier or deactivated by the user
C3_DisaggregationSum ==
    /\ ~(err.kind \in {"AttributeError", "KeyError"} /\ err.at \in Vars)
    /\ \A dj \in completed : \A i \in 1..Len(varSets[dj]) :
           /\ Cardinality(SumEntries(dj, i)) = 1
           /\ \A e \in SumEntries(dj, i) :
                  e.expr = [var |-> varSets[dj][i], sum |-> disjuncts(dj)]

\* the position of v in the sequence q (0 if absent)
Position(q, v) ==
    IF v \in Range(q) THEN CHOOSE i \in 1..Len(q) : q[i] = v ELSE 0

UnboundedAbort == phase = "aborted"
                  /\ err.kind = "UnboundedDisaggregationVariable"

\* C4 as stated: after the abort on an unbounded variable nothing exists for
\* that variable or a later one (no copy, no ledger entry, no bound
\* constraint), and the disjunct is active and not marked transformed
C4_NothingForUnbounded ==
    UnboundedAbort =>
        LET dd == err.disjunct
            varSet == varSets[DisjunctionOf(dd)]
            from == Position(varSet, err.at)
            blk == LastRelaxationBlock
        IN  /\ blk.src = dd
            /\ \A i \in from..Len(varSet) :
                   /\ varSet[i] \notin blk.srcVars
                   /\ varSet[i] \notin blk.boundConstraintToSrcVar
                   /\ varSet[i] \notin info[dd].disaggregatedVars
            /\ active[dd]
            /\ ~info[dd].relaxed
            /\ info[dd].chull = NoBlock

\* C4 amended: after the abort the copy of the unbounded variable and its
\* copy -> original entry exist on the relaxation block, its bound
\* constraint does not; earlier variables have both, later ones nothing; no
\* constraint was rewritten; a disjunct that carried no
\* _gdp_transformation_info is still active and carries none, one that
\* carried it (relaxed by another transformation) has the relaxation block
\* and the original -> copy entries recorded in it
C4_UnboundedAbort ==
    UnboundedAbort =>
        LET dd == err.disjunct
            varSet == varSets[DisjunctionOf(dd)]
            from == Position(varSet, err.at)
            blk == LastRelaxationBlock
        IN  /\ blk.src = dd
            /\ from > 0
            /\ blk.srcVars = {varSet[i] : i \in 1..from}
            /\ blk.boundConstraintToSrcVar = {varSet[i] : i \in 1..(from - 1)}
            /\ blk.srcConstraints = {}
            /\ ~info[dd].has => /\ active[dd]
                                /\ info[dd] = EmptyInfo
            /\ info[dd].has =>
                   /\ info[dd].relaxed /\ info[dd].bigm /\ ~active[dd]
                   /\ info[dd].chull =
                          <<Len(transBlocks),
                            Len(CurrentTransBlock.relaxedDisjuncts)>>
                   /\ info[dd].disaggregatedVars = blk.srcVars
                   /\ info[dd].bigmConstraints = blk.boundConstraintToSrcVar

\* the abort came at a variable that has a later one behind it
C4_Witness ==
    /\ UnboundedAbort
    /\ Position(varSets[DisjunctionOf(err.disjunct)], err.at)
           < Len(varSets[DisjunctionOf(err.disjunct)])

\* C5: at the end of a run that completes, every disjunction that has an
\* entry in an xor constraint is inactive, every disjunct that has a
\* relaxation block is inactive, and every constraint that has a relaxed
\* counterpart is inactive (stated for the first run, so that every
\* artifact is of this run)
C5_OriginalsDeactivated ==
    (phase = "done" /\ runs = 1) =>
        /\ \A dj \in DisjunctionDatas : XorEntries(dj) # {} => ~active[dj]
        /\ \A i \in 1..Len(CurrentTransBlock.relaxedDisjuncts) :
               LET blk == CurrentTransBlock.relaxedDisjuncts[i]
               IN  /\ ~active[blk.src]
                   /\ \A c \in blk.srcConstraints : ~active[c.src]

IndexedComps == {c \in DisjunctComps \cup DisjunctionComps : is_indexed(c)}

NoActiveMember(act, c) ==
    \A i \in 1..Len(Members(c)) : ~act[Members(c)[i]]

\* C6: an indexed Disjunction or Disjunct that a step deactivates has no
\* active member once the step is done; after the loop over disjContainers
\* of a completed run every visited component all of whose members are
\* inactive is inactive; and that loop changes no active flag of a member
\* and fixes no indicator variable
C6_ContainerDeactivation ==
    [][/\ \A c \in IndexedComps :
              (active[c] /\ ~active'[c]) => NoActiveMember(active', c)
       /\ phase' = "done" =>
              \A c \in transBlocks'[Len(transBlocks')].disjContainers :
                  NoActiveMember(active', c) => ~active'[c]
       /\ (phase = "targets" /\ phase' = "done") =>
              /\ \A e \in DisjunctDatas \cup DisjunctionDatas :
                     active'[e] = active[e]
              /\ fixed' = fixed]_vars

\* the loop over disjContainers has deactivated the indexed Disjunct d
\* (nothing else deactivates it)
C6_Witness == phase = "done" /\ ~active["d"] /\ NoActiveMember(active, "d")

RegisteredHandler ==
    [Constraint  |-> "_xform_constraint",
     Disjunction |-> "_warn_for_active_disjunction",
     Disjunct    |-> "_warn_for_active_disjunct",
     Block       |-> "_transform_block_on_disjunct"]

PassThroughTypes == {"Var", "Connector", "Param", "Set", "Suffix"}

\* C8: every component the walk of a disjunct comes to is skipped without a
\* lookup if it is inactive, handed to the handler registered for its type,
\* passed over if its type is registered as pass-through, or, its type
\* having no entry, ends the run with UnsupportedEntityKind
C8_FailFast ==
    \A r \in walked :
        LET ty == type(feat, r.obj)
        IN  /\ ~r.active => r.how = "skipped" /\ ~r.lookup
            /\ (r.active /\ ty \in DOMAIN RegisteredHandler)
                   => r.how = RegisteredHandler[ty]
            /\ (r.active /\ ty \in PassThroughTypes) => r.how = "passed"
            /\ (r.active /\ ty \notin DOMAIN RegisteredHandler
                         /\ ty \notin PassThroughTypes)
                   => /\ r.how = "unsupported"
                      /\ phase = "aborted"
                      /\ err.kind = "UnsupportedEntityKind"
                      /\ err.at = r.obj

\* a walk met a pass-through component, a constraint and then a component of
\* a type without handler
C8_Witness ==
    /\ \E r \in walked : r.how = "unsupported"
    /\ \E r \in walked : r.how = "passed"
    /\ \E r \in walked : r.how = "_xform_constraint"

\* C9: a run whose nl_mode is none of the three formulations, on an
\* instance with an active disjunction, does not complete
C9_UnknownModeAborts ==
    ~(/\ phase = "done"
      /\ mode \notin {NL_Mode_LeeGrossmann, NL_Mode_GrossmannLee,
                      NL_Mode_FurmanSawayaGrossmann}
      /\ CurrentTransBlock.disjContainers # {})

\* the constraints in the sub-tree of a disjunct: its own and those of the
\* active Blocks on it
SubtreeConstraints(dd) ==
    {c \in Constraints :
        \/ c \in Range(component_map(feat, dd))
        \/ \E b \in Blocks : /\ b \in Range(component_map(feat, dd))
                             /\ active[b]
                             /\ c \in Range(component_map(feat, b))}

\* C10: the transformation of a disjunct with a nested Block does not fail
\* in the handler of the Block, and once a disjunct is transformed every
\* constraint that was active in its sub-tree is inactive and has a relaxed
\* counterpart, with the indicator variable of the disjunct, on its
\* relaxation block
C10_NestedBlocks ==
    /\ err.kind # "NameError"
    /\ \A dd \in DisjunctDatas :
           (info[dd].relaxed /\ info[dd].chull # NoBlock) =>
               \A c \in SubtreeConstraints(dd) :
                   InitActive(feat)[c] =>
                       /\ ~active[c]
                       /\ \E rc \in transBlocks[info[dd].chull[1]]
                                     .relaxedDisjuncts[info[dd].chull[2]]
                                     .srcConstraints :
                              rc.src = c /\ rc.y = indicator_var(dd)

\* C11: a run on the whole model never ends with the error of
\* _warn_for_active_disjunction or _warn_for_active_disjunct; the walk of a
\* disjunct finds every Disjunction declared on it inactive; and, of the
\* Disjunctions declared on the model, S is not transformed before J
C11_NestingOrder ==
    given = <<"m">> =>
        /\ err.kind # "OrderingViolation"
        /\ \A r \in walked :
               type(feat, r.obj) = "Disjunction" => ~r.active
        /\ (runs = 1 /\ "S" \in completed
                     /\ "S" \in Range(component_map(feat, "m")))
               => {"J1", "J2"} \subseteq completed

\* the disjuncts another transformation relaxed before the first run:
\* inactive, relaxed set, no relaxation block of this transformation
RelaxedByOther ==
    {dd \in DisjunctDatas : /\ ~InitActive(feat)[dd]
                            /\ InitInfo(feat)[dd].relaxed
                            /\ InitInfo(feat)[dd].chull = NoBlock}

\* the relaxation blocks, of any run, made for disjunct dd
BlocksOf(dd) ==
    LET q == AllRelaxationBlocks(transBlocks)
    IN  {i \in 1..Len(q) : q[i].src = dd}

UserExcluded ==
    {dd \in DisjunctDatas : ~InitActive(feat)[dd] /\ ~InitInfo(feat)[dd].has}

\* the constraints declared on a disjunct or on a Block on it
ConstraintsUnder(dd) ==
    {c \in Constraints :
        \/ c \in Range(component_map(feat, dd))
        \/ \E b \in Blocks : /\ b \in Range(component_map(feat, dd))
                             /\ c \in Range(component_map(feat, b))}

\* C13: a disjunct the user deactivated never gets a relaxation block, a
\* disaggregated variable or a bound constraint; none of its constraints
\* is relaxed or deactivated; it is never recorded as transformed; its
\* container is among disjContainers only if another of its members got a
\* relaxation block in that run; and once _transformDisjunctionData has
\* gone through the disjuncts of its disjunction (the xor constraint is
\* written) its indicator_var is fixed
C13_UserExcluded ==
    \A dd \in UserExcluded :
        /\ BlocksOf(dd) = {}
        /\ info[dd] = EmptyInfo
        /\ ~active[dd]
        /\ \A c \in ConstraintsUnder(dd) :
               /\ active[c] = InitActive(feat)[c]
               /\ \A i \in 1..Len(AllRelaxationBlocks(transBlocks)) :
                      \A rc \in AllRelaxationBlocks(transBlocks)[i]
                                    .srcConstraints : rc.src # c
        /\ \A t \in 1..Len(transBlocks) :
               parent_component(dd) \in transBlocks[t].disjContainers =>
                   \E i \in 1..Len(transBlocks[t].relaxedDisjuncts) :
                       LET src == transBlocks[t].relaxedDisjuncts[i].src
                       IN  src # dd /\ parent_component(src)
                                           = parent_component(dd)
        /\ XorEntries(DisjunctionOf(dd)) # {} => fixed[dd]

\* _transform_disjunct has fixed the free indicator_var of a disjunct the
\* user deactivated, whose constraint is still active
C13_Witness ==
    \E dd \in UserExcluded :
        /\ ~InitFixed(feat)[dd]
        /\ fixed[dd]
        /\ XorEntries(DisjunctionOf(dd)) # {}
        /\ \E c \in ConstraintsUnder(dd) : active[c]

\* the relaxed constraints, of any run, built in one of the three
\* formulations
RelaxedConstraints ==
    LET q == AllRelaxationBlocks(transBlocks)
    IN  {rc \in UNION {q[i].srcConstraints : i \in 1..Len(q)} :
            /\ rc.data # {}
            /\ rc.mode \in {NL_Mode_LeeGrossmann, NL_Mode_GrossmannLee,
                            NL_Mode_FurmanSawayaGrossmann}}

\* whether the body or a side of a relaxed constraint mentions h_0
MentionsH0(rc) ==
    \/ relaxed_expr(rc.NL, rc.mode).h_0
    \/ \E sd \in rc.data : sd.h_0

\* C14 as stated: h_0 is computed whenever the constraint is nonlinear or
\* the mode is that of Furman, Sawaya and Grossmann, and whenever the
\* relaxed constraint mentions it
C14_H0WhenNonlinear ==
    \A rc \in RelaxedConstraints :
        /\ (rc.NL \/ rc.mode = NL_Mode_FurmanSawayaGrossmann) => rc.h_0
        /\ MentionsH0(rc) => rc.h_0

\* C14 amended: h_0 is computed exactly when the constraint is linear or
\* the mode is that of Furman, Sawaya and Grossmann; a relaxed constraint
\* that mentions h_0 is built where h_0 was computed, so no run ends
\* reading h_0 unassigned; a nonlinear constraint in the other two modes
\* mentions it nowhere
C14_H0Available ==
    /\ err.kind # "UnboundLocalError"
    /\ \A rc \in RelaxedConstraints :
           /\ rc.h_0 <=> (~rc.NL \/ rc.mode = NL_Mode_FurmanSawayaGrossmann)
           /\ MentionsH0(rc) => rc.h_0
           /\ (rc.NL /\ rc.mode # NL_Mode_FurmanSawayaGrossmann)
                  => ~MentionsH0(rc)

\* a nonlinear constraint was relaxed in the mode of Lee and Grossmann, next
\* to a linear one
C14_Witness ==
    /\ \E rc \in RelaxedConstraints :
           rc.NL /\ rc.mode = NL_Mode_LeeGrossmann
    /\ \E rc \in RelaxedConstraints : ~rc.NL /\ MentionsH0(rc)

\* C15: no step changes what has been generated: an entry of an xor or
\* disaggregation constraint stays as it was written (it is not written
\* again), and a relaxation block keeps its disaggregated variables, bound
\* constraints and relaxed constraints
C15_WriteOnce ==
    [][/\ \A c \in DisjunctionComps :
              /\ orConstraintMap[c].data \subseteq orConstraintMap'[c].data
              /\ disaggregationConstraintMap[c].data
                     \subseteq disaggregationConstraintMap'[c].data
       /\ \A t \in 1..Len(transBlocks) :
              \A i \in 1..Len(transBlocks[t].relaxedDisjuncts) :
                  /\ i <= Len(transBlocks'[t].relaxedDisjuncts)
                  /\ transBlocks'[t].relaxedDisjuncts[i]
                         = transBlocks[t].relaxedDisjuncts[i]]_vars

=============================================================================
